---- MODULE Spec2Model ----
(***************************************************************************)
(* Model of the session accepter of axus-rs                                *)
(* (modules/engine/src/service/session/accepter.rs, message.rs).           *)
(*                                                                         *)
(* SessionAccepter owns one bounded mpsc queue per SessionType, a          *)
(* cancellation token and three worker tasks (AccepterTask::run).  Each    *)
(* worker loops: sleep, transport accept, responder handshake.  One action *)
(* of the model is one await point of the code together with the           *)
(* synchronous code that follows it up to the next await point.            *)
(*                                                                         *)
(* Peers, the transport and the random provider are the environment: every *)
(* word, nonce and signature a peer can send is an input of the receiving  *)
(* action, and every `?` can fail.  The signer is known by its interface   *)
(* only: verify(expected) succeeds iff the signature is over `expected`.   *)
(* Each send_message / recv_message is one step.                           *)
(*                                                                         *)
(* run() races the loop against cancellation_token.cancelled() in select!: *)
(* once the token is cancelled the loop future can be dropped at whichever *)
(* await point it is suspended at (action Cancelled).                      *)
(*                                                                         *)
(* Four specifications share the actions of the accepter and differ in the *)
(* environment:                                                            *)
(*   Spec      after construction, MaxConns connections, SoloTerms         *)
(*             terminate() calls, SoloCallers accept() calls;              *)
(*   SpecFull  the same with Capacity - 1 sessions of earlier handshakes   *)
(*             still unconsumed, so that the queue fills;                  *)
(*   SpecFifo  FairConns connections, FifoBacklog earlier sessions and     *)
(*             NumCallers concurrent accept() calls;                       *)
(*   FairSpec  FairConns connections, NumTerms concurrent terminate()      *)
(*             calls, with weak fairness of the runtime's own steps.       *)
(*                                                                         *)
(* The discovery cycle of the node finder                                  *)
(* (modules/engine/src/service/engine/node/node_finder.rs,                 *)
(* NodeFinder::internal_connect) is a fifth specification, SpecFinder,     *)
(* with actions of its own: it shares no state with the accepter.  The     *)
(* session connector, the NodeRef source and the clock are its             *)
(* environment; the membership set (VolatileHashSet) is known by its       *)
(* interface: insert, contains, and refresh as the only eviction point.    *)
(***************************************************************************)
EXTENDS Integers, Sequences, FiniteSets, TLC

(***************************************************************************)
(* Program constants.                                                      *)
(***************************************************************************)
\* accepter.rs:46  mpsc::channel(20)
Capacity == 20
\* accepter.rs:81  for _ in 0..3
NumWorkers == 3
\* message.rs:11   const V1 = 1
V1 == 1
\* message.rs:83   Unknown = 0
Unknown == 0
\* message.rs:84   NodeExchanger = 1
NodeExchanger == 1
\* accepter.rs:46  the single Sender of the channel, kept in self.senders
SenderCount == 1

(***************************************************************************)
(* Bounds of the model.                                                    *)
(***************************************************************************)
\* inbound connections the transport hands out in one run
MaxConns == 2
\* inbound connections in the runs checked for liveness
FairConns == 1
\* terminate() calls made in the runs of Spec and SpecFull
SoloTerms == 1
\* distinct nonce values (random provider, peer)
NumNonces == 2
\* callers of SessionAccepter::accept (at most)
NumCallers == 2
\* accept() calls made in the runs of Spec, SpecFull and FairSpec
SoloCallers == 1
\* sessions of earlier handshakes in the queue at the start of SpecFifo
FifoBacklog == 1
\* callers of SessionAccepter::terminate (at most)
NumTerms == 2
\* largest 32-bit word a peer puts on the wire in a hello or a request
MaxWire == 2

\* distinct network addresses
NumAddrs == 2
\* addresses of one NodeRef (at most; v.addrs can be empty)
MaxAddrs == 2
\* NodeRefs in one list of get_node_refs() (at most)
MaxList == 3
\* calls of internal_connect in one run
MaxCycles == 2
\* time-to-live of a membership entry, in clock ticks
TTL == 1
\* entries of the membership set handed to the first call of internal_connect
MaxMembers == 1

Unset == 0 - 1

Workers == 1..NumWorkers
Callers == 1..NumCallers
Terms == 1..NumTerms
Nonces == 1..NumNonces
WireWords == 0..MaxWire
Addresses == 1..NumAddrs
\* a NodeRef is its list of addresses
NodeRefs == UNION {[1..n -> Addresses] : n \in 0..MaxAddrs}
NodeRefLists == UNION {[1..n -> NodeRefs] : n \in 0..MaxList}
\* VolatileHashSet::new(): no entry
NoMembers == [r \in NodeRefs |-> Unset]
\* the membership sets the caller of internal_connect passes in
\* (connected_node_refs): entries put there before the call
Memberships ==
    {set \in [NodeRefs -> {Unset, 0}] :
        Cardinality({r \in NodeRefs : set[r] # Unset}) <= MaxMembers}

VARIABLES
    cancelled,      \* cancellation_token: has cancel() been called
    join_handles,   \* self.join_handles: "Some" | "None"
    join_lock,      \* holder of the join_handles mutex (0 = free)
    senders_lock,   \* holder of the senders mutex (0 = free)
    receivers_lock, \* FIFO of callers at the receivers mutex, head holds it
    queue,          \* the NodeFinder channel: sessions sent, not yet received
    wpc,            \* worker -> await point it is suspended at
    conn,           \* worker -> (stream, addr) of its handshake
    hello,          \* worker -> received_hello_message.version
    version,        \* worker -> negotiated version
    send_nonce,     \* worker -> send_nonce
    recv_nonce,     \* worker -> receive_challenge_message.nonce
    recv_sig,       \* worker -> received_signature_message.signature
    request,        \* worker -> received_session_request_message.request_type
    typ,            \* worker -> typ, the SessionType the match gave
    permit,         \* worker -> holds a Permit of the channel
    sent,           \* worker -> messages written to its stream so far
    outcome,        \* worker -> what its last accept() returned
    nextConn,       \* transport: id of the next inbound connection
    budget,         \* transport: connections still to come
    cpc,            \* caller of accept -> position
    got,            \* caller of accept -> result
    tpc,            \* caller of terminate -> position
    connected_node_refs, \* membership set: NodeRef -> age of its entry, Unset = absent
    nf_pc,          \* internal_connect: await point it is suspended at
    node_refs,      \* internal_connect: the list get_node_refs() returned
    v_idx,          \* internal_connect: position of `v` in node_refs
    a_idx,          \* internal_connect: position of `a` in v.addrs
    nf_result,      \* what the last internal_connect returned
    cycles,         \* calls of internal_connect still to come
    dialed,         \* history: NodeRefs dialed in the current cycle
    established     \* history: NodeRef -> sessions connect() returned in the current cycle

wvars == <<wpc, conn, hello, version, send_nonce, recv_nonce, recv_sig, request, typ, permit,
           sent, outcome>>
vars == <<cancelled, join_handles, join_lock, senders_lock, receivers_lock, queue,
          wpc, conn, hello, version, send_nonce, recv_nonce, recv_sig, request, typ, permit,
          sent, outcome, nextConn, budget, cpc, got, tpc,
          connected_node_refs, nf_pc, node_refs, v_idx, a_idx, nf_result, cycles, dialed,
          established>>
\* the state of the session accepter
avars == <<cancelled, join_handles, join_lock, senders_lock, receivers_lock, queue,
           wpc, conn, hello, version, send_nonce, recv_nonce, recv_sig, request, typ, permit,
           sent, outcome, nextConn, budget, cpc, got, tpc>>
\* the state of the node finder
nfvars == <<connected_node_refs, nf_pc, node_refs, v_idx, a_idx, nf_result, cycles, dialed,
            established>>

(***************************************************************************)
(* SessionVersion: a bitflags set over u32.                                *)
(***************************************************************************)
RECURSIVE BitAnd(_, _)
BitAnd(a, b) ==
    IF a = 0 \/ b = 0 THEN 0
    ELSE (IF a % 2 = 1 /\ b % 2 = 1 THEN 1 ELSE 0) + 2 * BitAnd(a \div 2, b \div 2)

RECURSIVE BitOr(_, _)
BitOr(a, b) ==
    IF a = 0 THEN b
    ELSE IF b = 0 THEN a
    ELSE (IF a % 2 = 1 \/ b % 2 = 1 THEN 1 ELSE 0) + 2 * BitOr(a \div 2, b \div 2)

\* every flag the bitflags! block declares
AllVersions == V1

\* SessionVersion::from_bits: None when a bit is set that is no declared flag
FromBits(bits) == IF BitAnd(bits, AllVersions) = bits THEN bits ELSE Unset

\* SessionVersion::contains
Contains(v, flag) == BitAnd(v, flag) = flag

\* HelloMessage::unpack
UnpackHello(word) == FromBits(word)

\* variant: the responder also offers a second flag and the sets are or-ed
NegotiateWithV2(own, peer) == BitOr(BitOr(own, peer), 2 * V1)

\* let version = send_hello_message.version | received_hello_message.version
Negotiate(own, peer) == BitOr(own, peer)

\* FromPrimitive::from_u32 for V1RequestType (V1RequestMessage::unpack): None
\* for a word that is no declared variant
FromU32(word) == IF word \in {Unknown, NodeExchanger} THEN word ELSE Unset

\* the match of accept(), as written: the one arm it has
RequestToSessionType(rt) == IF rt = NodeExchanger THEN "NodeFinder" ELSE "no arm"

\* What the match does with a decoded request type.  For a variant without an
\* arm (Unknown) the code defines nothing (the match is not exhaustive): every
\* way an arm can end is possible, a SessionType, an error returned from
\* accept(), or a panic.
SessionTypes == {"NodeFinder"}
MatchOutcomes(rt) ==
    IF RequestToSessionType(rt) = "no arm"
    THEN SessionTypes \cup {"Err", "panic"}
    ELSE {RequestToSessionType(rt)}

(***************************************************************************)
(* Signer: sign(bytes) and signature.verify(expected).                     *)
(***************************************************************************)
Sign(nonce) == [signed |-> nonce]
Verify(sig, expected) == sig.signed = expected
\* what a peer can send as its signature: one over any nonce, or a forgery
PeerSigs == {Sign(n) : n \in Nonces \cup {Unset}}

(***************************************************************************)
(* Wire messages.                                                          *)
(***************************************************************************)
Hello(v) == [kind |-> "Hello", body |-> v]
Challenge(n) == [kind |-> "Challenge", body |-> n]
Signature(s) == [kind |-> "Signature", body |-> s]
Result(r) == [kind |-> "Result", body |-> r]

Session(w) ==
    [typ |-> typ[w], address |-> conn[w], handshake_type |-> "Accepted",
     signature |-> recv_sig[w]]

(***************************************************************************)
(* The bounded channel.                                                    *)
(***************************************************************************)
Reserved == Cardinality({w \in Workers : permit[w]})
\* variant: the capacity test is off by one
SlotFreeOffByOne == Len(queue) + Reserved <= Capacity

\* Sender::try_reserve succeeds iff the semaphore has a free permit
SlotFree == Len(queue) + Reserved < Capacity

(***************************************************************************)
(* Initial state: after SessionAccepter::new.                              *)
(***************************************************************************)
WorkerInit ==
    /\ wpc = [w \in Workers |-> "sleep"]
    /\ conn = [w \in Workers |-> Unset]
    /\ hello = [w \in Workers |-> Unset]
    /\ version = [w \in Workers |-> Unset]
    /\ send_nonce = [w \in Workers |-> Unset]
    /\ recv_nonce = [w \in Workers |-> Unset]
    /\ recv_sig = [w \in Workers |-> Sign(Unset)]
    /\ request = [w \in Workers |-> Unset]
    /\ typ = [w \in Workers |-> "none"]
    /\ permit = [w \in Workers |-> FALSE]
    /\ sent = [w \in Workers |-> <<>>]
    /\ outcome = [w \in Workers |-> "none"]

\* a session left in the queue by an earlier, completed handshake
Earlier(i) ==
    [typ |-> "NodeFinder", address |-> i, handshake_type |-> "Accepted",
     signature |-> Sign(1)]

\* The accepter after construction, in an environment that will bring `conns`
\* inbound connections and make `callers` calls of accept() and `terms` calls of
\* terminate(); `backlog` sessions of earlier handshakes are still unconsumed in
\* the queue.
Boot(conns, backlog, terms, callers) ==
    /\ cancelled = FALSE
    /\ join_handles = "Some"
    /\ join_lock = 0
    /\ senders_lock = 0
    /\ receivers_lock = <<>>
    /\ queue = [i \in 1..backlog |-> Earlier(i)]
    /\ WorkerInit
    /\ nextConn = backlog + 1
    /\ budget = conns
    /\ cpc = [c \in Callers |-> IF c <= callers THEN "idle" ELSE "absent"]
    /\ got = [c \in Callers |-> [result |-> "none"]]
    /\ tpc = [t \in Terms |-> IF t <= terms THEN "idle" ELSE "absent"]

\* The node finder with `n` discovery cycles ahead and a membership set of `sets`.
Finder(n, sets) ==
    /\ connected_node_refs \in sets
    /\ nf_pc = "idle"
    /\ node_refs = <<>>
    /\ v_idx = 1
    /\ a_idx = 1
    /\ nf_result = "none"
    /\ cycles = n
    /\ dialed = {}
    /\ established = [r \in NodeRefs |-> 0]

Init == Boot(MaxConns, 0, SoloTerms, SoloCallers) /\ Finder(0, {NoMembers})

\* one slot of the queue is left
InitFull == Boot(MaxConns, Capacity - 1, SoloTerms, SoloCallers) /\ Finder(0, {NoMembers})

InitFair == Boot(FairConns, 0, NumTerms, SoloCallers) /\ Finder(0, {NoMembers})

\* concurrent callers of accept(), one earlier session still unconsumed
InitFifo == Boot(FairConns, FifoBacklog, SoloTerms, NumCallers) /\ Finder(0, {NoMembers})

\* the discovery cycle on its own: no inbound connection, no accepter call
InitFinder == Boot(0, 0, 0, 0) /\ Finder(MaxCycles, Memberships)

(***************************************************************************)
(* AccepterTask::run and AccepterTask::accept.                             *)
(***************************************************************************)
Goto(w, pc) == wpc' = [wpc EXCEPT ![w] = pc]

\* positions of a worker whose task has ended: run() returned, or it panicked
Ended == {"exited", "panicked"}

\* the locals of accept() are dropped when it returns or when its future is
\* dropped: the Permit gives its slot back, the senders guard unlocks
DropLocals(w) ==
    /\ hello' = [hello EXCEPT ![w] = Unset]
    /\ version' = [version EXCEPT ![w] = Unset]
    /\ send_nonce' = [send_nonce EXCEPT ![w] = Unset]
    /\ recv_nonce' = [recv_nonce EXCEPT ![w] = Unset]
    /\ recv_sig' = [recv_sig EXCEPT ![w] = Sign(Unset)]
    /\ request' = [request EXCEPT ![w] = Unset]
    /\ typ' = [typ EXCEPT ![w] = "none"]
    /\ permit' = [permit EXCEPT ![w] = FALSE]
    /\ senders_lock' = IF senders_lock = w THEN 0 ELSE senders_lock

KeepLocals ==
    UNCHANGED <<hello, version, send_nonce, recv_nonce, recv_sig, request, typ, permit,
                senders_lock>>

\* accept() returns `res` to the loop of run()
Return(w, res) ==
    /\ Goto(w, "done")
    /\ outcome' = [outcome EXCEPT ![w] = res]
    /\ DropLocals(w)

Rest == <<cancelled, join_handles, join_lock, receivers_lock, cpc, got, tpc, nfvars>>

\* tokio::time::sleep(1s) elapsed
Sleep(w) ==
    /\ wpc[w] = "sleep"
    /\ Goto(w, "tcp_accept")
    /\ KeepLocals
    /\ UNCHANGED <<conn, sent, outcome, queue, nextConn, budget, Rest>>

\* self.tcp_connector.accept().await? : a connection arrived
TcpAccept(w) ==
    /\ wpc[w] = "tcp_accept"
    /\ budget > 0
    /\ conn' = [conn EXCEPT ![w] = nextConn]
    /\ nextConn' = nextConn + 1
    /\ budget' = budget - 1
    /\ Goto(w, "send_hello")
    /\ KeepLocals
    /\ UNCHANGED <<sent, outcome, queue, Rest>>

IoPoints == {"tcp_accept", "send_hello", "recv_hello", "send_challenge", "recv_challenge",
             "send_signature", "recv_signature", "recv_request", "send_result"}

\* the error of the `?` that failed: the send of the result, or any other
\* transport, send, receive, sign or random-provider error
IoErrorAt(pc) == IF pc = "send_result" THEN "result send error" ELSE "io error"

\* variant: the slot of a permit is not given back when accept() fails
IoErrorLeaksSlot(w) ==
    /\ wpc[w] \in IoPoints
    /\ Goto(w, "done")
    /\ outcome' = [outcome EXCEPT ![w] = IoErrorAt(wpc[w])]
    /\ hello' = [hello EXCEPT ![w] = Unset]
    /\ version' = [version EXCEPT ![w] = Unset]
    /\ send_nonce' = [send_nonce EXCEPT ![w] = Unset]
    /\ recv_nonce' = [recv_nonce EXCEPT ![w] = Unset]
    /\ recv_sig' = [recv_sig EXCEPT ![w] = Sign(Unset)]
    /\ request' = [request EXCEPT ![w] = Unset]
    /\ typ' = [typ EXCEPT ![w] = "none"]
    /\ permit' = permit
    /\ senders_lock' = IF senders_lock = w THEN 0 ELSE senders_lock
    /\ UNCHANGED <<conn, sent, queue, nextConn, budget, Rest>>

IoError(w) ==
    /\ wpc[w] \in IoPoints
    /\ Return(w, IoErrorAt(wpc[w]))
    /\ UNCHANGED <<conn, sent, queue, nextConn, budget, Rest>>

\* variant: the challenge is sent without waiting for the peer's hello
SendHelloPipelined(w) ==
    /\ wpc[w] = "send_hello"
    /\ sent' = [sent EXCEPT ![w] = Append(@, Hello(V1))]
    /\ Goto(w, "send_challenge")
    /\ KeepLocals
    /\ UNCHANGED <<conn, outcome, queue, nextConn, budget, Rest>>

SendHello(w) ==
    /\ wpc[w] = "send_hello"
    /\ sent' = [sent EXCEPT ![w] = Append(@, Hello(V1))]
    /\ Goto(w, "recv_hello")
    /\ KeepLocals
    /\ UNCHANGED <<conn, outcome, queue, nextConn, budget, Rest>>

RecvHello(w) ==
    /\ wpc[w] = "recv_hello"
    /\ \E word \in WireWords :
        LET h == UnpackHello(word)
            v == Negotiate(V1, h)
        IN  IF h = Unset
            THEN Return(w, "invalid version")
            ELSE IF Contains(v, V1)
            THEN /\ hello' = [hello EXCEPT ![w] = h]
                 /\ version' = [version EXCEPT ![w] = v]
                 /\ Goto(w, "send_challenge")
                 /\ UNCHANGED <<send_nonce, recv_nonce, recv_sig, request, typ, permit, senders_lock,
                                outcome>>
            ELSE Return(w, "Unsupported session version")
    /\ UNCHANGED <<conn, sent, queue, nextConn, budget, Rest>>

SendChallenge(w) ==
    /\ wpc[w] = "send_challenge"
    /\ \E n \in Nonces :
        /\ send_nonce' = [send_nonce EXCEPT ![w] = n]
        /\ sent' = [sent EXCEPT ![w] = Append(@, Challenge(n))]
    /\ Goto(w, "recv_challenge")
    /\ UNCHANGED <<hello, version, recv_nonce, recv_sig, request, typ, permit, senders_lock>>
    /\ UNCHANGED <<conn, outcome, queue, nextConn, budget, Rest>>

RecvChallenge(w) ==
    /\ wpc[w] = "recv_challenge"
    /\ \E n \in Nonces : recv_nonce' = [recv_nonce EXCEPT ![w] = n]
    /\ Goto(w, "send_signature")
    /\ UNCHANGED <<hello, version, send_nonce, recv_sig, request, typ, permit, senders_lock>>
    /\ UNCHANGED <<conn, sent, outcome, queue, nextConn, budget, Rest>>

SendSignature(w) ==
    /\ wpc[w] = "send_signature"
    /\ sent' = [sent EXCEPT ![w] = Append(@, Signature(Sign(recv_nonce[w])))]
    /\ Goto(w, "recv_signature")
    /\ KeepLocals
    /\ UNCHANGED <<conn, outcome, queue, nextConn, budget, Rest>>

\* variant: the signature is verified against the nonce the peer sent
RecvSignatureWrongNonce(w) ==
    /\ wpc[w] = "recv_signature"
    /\ \E s \in PeerSigs :
        IF Verify(s, recv_nonce[w])
        THEN /\ recv_sig' = [recv_sig EXCEPT ![w] = s]
             /\ Goto(w, "recv_request")
             /\ UNCHANGED <<hello, version, send_nonce, recv_nonce, request, typ, permit, senders_lock,
                            outcome>>
        ELSE Return(w, "Invalid signature")
    /\ UNCHANGED <<conn, sent, queue, nextConn, budget, Rest>>

\* variant: the result of verify() is ignored
RecvSignatureUnchecked(w) ==
    /\ wpc[w] = "recv_signature"
    /\ \E s \in PeerSigs :
        /\ recv_sig' = [recv_sig EXCEPT ![w] = s]
        /\ Goto(w, "recv_request")
        /\ UNCHANGED <<hello, version, send_nonce, recv_nonce, request, typ, permit, senders_lock,
                       outcome>>
    /\ UNCHANGED <<conn, sent, queue, nextConn, budget, Rest>>

RecvSignature(w) ==
    /\ wpc[w] = "recv_signature"
    /\ \E s \in PeerSigs :
        IF Verify(s, send_nonce[w])
        THEN /\ recv_sig' = [recv_sig EXCEPT ![w] = s]
             /\ Goto(w, "recv_request")
             /\ UNCHANGED <<hello, version, send_nonce, recv_nonce, request, typ, permit, senders_lock,
                            outcome>>
        ELSE Return(w, "Invalid signature")
    /\ UNCHANGED <<conn, sent, queue, nextConn, budget, Rest>>

\* the task of the worker ends in a panic
Panic(w) ==
    /\ Goto(w, "panicked")
    /\ DropLocals(w)
    /\ conn' = [conn EXCEPT ![w] = Unset]
    /\ sent' = [sent EXCEPT ![w] = <<>>]
    /\ outcome' = [outcome EXCEPT ![w] = "none"]

\* recv_message of the request, V1RequestMessage::unpack, then the match
RecvRequest(w) ==
    /\ wpc[w] = "recv_request"
    /\ \E word \in WireWords :
        LET rt == FromU32(word)
        IN  IF rt = Unset
            THEN Return(w, "invalid request_type") /\ UNCHANGED <<conn, sent>>
            ELSE \E o \in MatchOutcomes(rt) :
                    IF o = "Err"
                    THEN Return(w, "no arm for request_type") /\ UNCHANGED <<conn, sent>>
                    ELSE IF o = "panic"
                    THEN Panic(w)
                    ELSE /\ request' = [request EXCEPT ![w] = rt]
                         /\ typ' = [typ EXCEPT ![w] = o]
                         /\ Goto(w, "lock_senders")
                         /\ UNCHANGED <<hello, version, send_nonce, recv_nonce, recv_sig,
                                        permit, senders_lock, outcome, conn, sent>>
    /\ UNCHANGED <<queue, nextConn, budget, Rest>>

\* variant: Accept is decided without looking at the result of try_reserve
TryReserveUnchecked(w) ==
    /\ wpc[w] = "lock_senders"
    /\ senders_lock = 0
    /\ senders_lock' = w
    /\ permit' = [permit EXCEPT ![w] = TRUE]
    /\ Goto(w, "send_result")
    /\ UNCHANGED <<hello, version, send_nonce, recv_nonce, recv_sig, request, typ>>
    /\ UNCHANGED <<conn, sent, outcome, queue, nextConn, budget, Rest>>

\* self.senders.lock().await.get(&typ).unwrap().try_reserve(); the guard is a
\* temporary of the `if let` scrutinee and lives to the end of the statement
TryReserve(w) ==
    /\ wpc[w] = "lock_senders"
    /\ senders_lock = 0
    /\ senders_lock' = w
    /\ permit' = [permit EXCEPT ![w] = SlotFree]
    /\ Goto(w, "send_result")
    /\ UNCHANGED <<hello, version, send_nonce, recv_nonce, recv_sig, request, typ>>
    /\ UNCHANGED <<conn, sent, outcome, queue, nextConn, budget, Rest>>

\* send the result message; with a permit, permit.send(session); then Ok(())
SendResult(w) ==
    /\ wpc[w] = "send_result"
    /\ IF permit[w]
       THEN /\ sent' = [sent EXCEPT ![w] = Append(@, Result("Accept"))]
            /\ queue' = Append(queue, Session(w))
       ELSE /\ sent' = [sent EXCEPT ![w] = Append(@, Result("Reject"))]
            /\ queue' = queue
    /\ Return(w, "Ok")
    /\ UNCHANGED <<conn, nextConn, budget, Rest>>

\* variant: `self.accept().await?` inside the loop, an Err ends the task
FinishStopsOnError(w) ==
    /\ wpc[w] = "done"
    /\ Goto(w, IF outcome[w] = "Ok" THEN "sleep" ELSE "exited")
    /\ conn' = [conn EXCEPT ![w] = Unset]
    /\ sent' = [sent EXCEPT ![w] = <<>>]
    /\ outcome' = [outcome EXCEPT ![w] = "none"]
    /\ KeepLocals
    /\ UNCHANGED <<queue, nextConn, budget, Rest>>

\* `let _ = self.accept().await;` the result is discarded, next iteration
Finish(w) ==
    /\ wpc[w] = "done"
    /\ Goto(w, "sleep")
    /\ conn' = [conn EXCEPT ![w] = Unset]
    /\ sent' = [sent EXCEPT ![w] = <<>>]
    /\ outcome' = [outcome EXCEPT ![w] = "none"]
    /\ KeepLocals
    /\ UNCHANGED <<queue, nextConn, budget, Rest>>

\* variant: the token is looked at only at the head of the loop
CancelledAtLoopHead(w) ==
    /\ cancelled
    /\ wpc[w] = "sleep"
    /\ Goto(w, "exited")
    /\ DropLocals(w)
    /\ conn' = [conn EXCEPT ![w] = Unset]
    /\ sent' = [sent EXCEPT ![w] = <<>>]
    /\ outcome' = [outcome EXCEPT ![w] = "none"]
    /\ UNCHANGED <<queue, nextConn, budget, Rest>>

\* select!: the cancelled() branch wins; the loop future is dropped where it is
Cancelled(w) ==
    /\ cancelled
    /\ wpc[w] \notin Ended
    /\ Goto(w, "exited")
    /\ DropLocals(w)
    /\ conn' = [conn EXCEPT ![w] = Unset]
    /\ sent' = [sent EXCEPT ![w] = <<>>]
    /\ outcome' = [outcome EXCEPT ![w] = "none"]
    /\ UNCHANGED <<queue, nextConn, budget, Rest>>

(***************************************************************************)
(* SessionAccepter::accept(typ)                                            *)
(***************************************************************************)
CallAccept(c) ==
    /\ cpc[c] = "idle"
    /\ cpc' = [cpc EXCEPT ![c] = "recv"]
    /\ receivers_lock' = Append(receivers_lock, c)
    /\ UNCHANGED <<cancelled, join_handles, join_lock, senders_lock, queue, wvars,
                   nextConn, budget, got, tpc, nfvars>>

\* receiver.recv().await under the receivers lock: a message, or None once the
\* channel is empty and every Sender is gone
Closed == SenderCount = 0

\* variant: the newest message of the channel is handed out first
RecvNewest(c) ==
    /\ cpc[c] = "recv"
    /\ receivers_lock # <<>> /\ Head(receivers_lock) = c
    /\ queue # <<>> \/ Closed
    /\ IF queue # <<>>
       THEN /\ got' = [got EXCEPT ![c] = [result |-> "Ok", session |-> queue[Len(queue)]]]
            /\ queue' = SubSeq(queue, 1, Len(queue) - 1)
       ELSE /\ got' = [got EXCEPT ![c] = [result |-> "Err"]]
            /\ queue' = queue
    /\ cpc' = [cpc EXCEPT ![c] = "returned"]
    /\ receivers_lock' = Tail(receivers_lock)
    /\ UNCHANGED <<cancelled, join_handles, join_lock, senders_lock, wvars,
                   nextConn, budget, tpc, nfvars>>

Recv(c) ==
    /\ cpc[c] = "recv"
    /\ receivers_lock # <<>> /\ Head(receivers_lock) = c
    /\ queue # <<>> \/ Closed
    /\ IF queue # <<>>
       THEN /\ got' = [got EXCEPT ![c] = [result |-> "Ok", session |-> Head(queue)]]
            /\ queue' = Tail(queue)
       ELSE /\ got' = [got EXCEPT ![c] = [result |-> "Err"]]
            /\ queue' = queue
    /\ cpc' = [cpc EXCEPT ![c] = "returned"]
    /\ receivers_lock' = Tail(receivers_lock)
    /\ UNCHANGED <<cancelled, join_handles, join_lock, senders_lock, wvars,
                   nextConn, budget, tpc, nfvars>>

(***************************************************************************)
(* SessionAccepter::terminate()                                            *)
(***************************************************************************)
TermCancel(t) ==
    /\ tpc[t] = "idle"
    /\ cancelled' = TRUE
    /\ tpc' = [tpc EXCEPT ![t] = "lock"]
    /\ UNCHANGED <<join_handles, join_lock, senders_lock, receivers_lock, queue, wvars,
                   nextConn, budget, cpc, got, nfvars>>

\* variant: the handles are taken in a statement of their own, so the guard is
\* dropped before the join is awaited
TermTakeGuardDropped(t) ==
    /\ tpc[t] = "lock"
    /\ join_lock = 0
    /\ IF join_handles = "Some"
       THEN /\ join_handles' = "None"
            /\ join_lock' = 0
            /\ tpc' = [tpc EXCEPT ![t] = "join"]
       ELSE /\ join_handles' = join_handles
            /\ join_lock' = 0
            /\ tpc' = [tpc EXCEPT ![t] = "returned"]
    /\ UNCHANGED <<cancelled, senders_lock, receivers_lock, queue, wvars,
                   nextConn, budget, cpc, got, nfvars>>

\* self.join_handles.lock().await.take(): the guard lives through the `if let` body
TermTake(t) ==
    /\ tpc[t] = "lock"
    /\ join_lock = 0
    /\ IF join_handles = "Some"
       THEN /\ join_handles' = "None"
            /\ join_lock' = t
            /\ tpc' = [tpc EXCEPT ![t] = "join"]
       ELSE /\ join_handles' = join_handles
            /\ join_lock' = 0
            /\ tpc' = [tpc EXCEPT ![t] = "returned"]
    /\ UNCHANGED <<cancelled, senders_lock, receivers_lock, queue, wvars,
                   nextConn, budget, cpc, got, nfvars>>

\* variant: the tasks are detached, terminate() does not wait for them
TermJoinDetached(t) ==
    /\ tpc[t] = "join"
    /\ join_lock' = 0
    /\ tpc' = [tpc EXCEPT ![t] = "returned"]
    /\ UNCHANGED <<cancelled, join_handles, senders_lock, receivers_lock, queue, wvars,
                   nextConn, budget, cpc, got, nfvars>>

\* join_handle.await: join_all of the worker tasks
TermJoin(t) ==
    /\ tpc[t] = "join"
    /\ \A w \in Workers : wpc[w] \in Ended
    /\ join_lock' = 0
    /\ tpc' = [tpc EXCEPT ![t] = "returned"]
    /\ UNCHANGED <<cancelled, join_handles, senders_lock, receivers_lock, queue, wvars,
                   nextConn, budget, cpc, got, nfvars>>

WorkerStep(w) ==
    \/ Sleep(w)
    \/ TcpAccept(w)
    \/ IoError(w)
    \/ SendHello(w)
    \/ RecvHello(w)
    \/ SendChallenge(w)
    \/ RecvChallenge(w)
    \/ SendSignature(w)
    \/ RecvSignature(w)
    \/ RecvRequest(w)
    \/ TryReserve(w)
    \/ SendResult(w)
    \/ Finish(w)
    \/ Cancelled(w)

Next ==
    \/ \E w \in Workers : WorkerStep(w)
    \/ \E c \in Callers : CallAccept(c) \/ Recv(c)
    \/ \E t \in Terms : TermCancel(t) \/ TermTake(t) \/ TermJoin(t)

Spec == Init /\ [][Next]_vars

SpecFull == InitFull /\ [][Next]_vars

SpecFifo == InitFifo /\ [][Next]_vars

\* The runtime polls a task that can run: a worker whose token is cancelled, a
\* terminate() that can take the lock or whose join is complete, an accept()
\* whose recv() has a result.  Nothing is assumed of peers or of the transport.
Fairness ==
    /\ \A w \in Workers : WF_vars(Cancelled(w))
    /\ \A t \in Terms : WF_vars(TermTake(t)) /\ WF_vars(TermJoin(t))
    /\ \A c \in Callers : WF_vars(Recv(c))

FairSpec == InitFair /\ [][Next]_vars /\ Fairness

(***************************************************************************)
(* VolatileHashSet<NodeRef>: entries with the time since their insertion.  *)
(***************************************************************************)
ContainsRef(set, r) == set[r] # Unset
InsertRef(set, r) == [set EXCEPT ![r] = 0]
\* refresh(): entries older than the time-to-live are removed
Refresh(set) == [r \in NodeRefs |-> IF set[r] > TTL THEN Unset ELSE set[r]]
\* the clock advances by one tick
Aged(set) ==
    [r \in NodeRefs |-> IF set[r] = Unset \/ set[r] > TTL THEN set[r] ELSE set[r] + 1]

(***************************************************************************)
(* NodeFinder::internal_connect: one discovery cycle.                      *)
(***************************************************************************)
\* SessionConnector::connect is the environment: it returns a Session or an
\* error.  The body of NodeFinder::handshake is todo!(): every call panics, it
\* returns neither Ok(id) nor Err.  So the loop over v.addrs never gets to a
\* second address, and insert(v) behind the loop is reached only for a NodeRef
\* without addresses.  The membership lock is taken once for contains (line 90)
\* and once more for insert (line 99): the cycle can be suspended in between.

\* the candidate `v` of the outer loop; the inner loop is at v.addrs[a_idx]
CurrentRef == node_refs[v_idx]

\* internal_connect returns `res` to its caller
EndCycle(res) ==
    /\ nf_pc' = "idle"
    /\ nf_result' = res

\* connected_node_refs.lock().await.refresh()
StartCycle ==
    /\ nf_pc = "idle"
    /\ cycles > 0
    /\ cycles' = cycles - 1
    /\ connected_node_refs' = Refresh(connected_node_refs)
    /\ nf_pc' = "fetch"
    /\ node_refs' = <<>>
    /\ v_idx' = 1
    /\ a_idx' = 1
    /\ nf_result' = "none"
    /\ dialed' = {}
    /\ established' = [r \in NodeRefs |-> 0]
    /\ UNCHANGED avars

\* node_ref_repo.get_node_refs().await? returned a list
GetNodeRefs ==
    /\ nf_pc = "fetch"
    /\ \E list \in NodeRefLists : node_refs' = list
    /\ nf_pc' = "examine"
    /\ UNCHANGED <<connected_node_refs, v_idx, a_idx, nf_result, cycles, dialed,
                   established, avars>>

\* node_ref_repo.get_node_refs().await? failed
GetNodeRefsError ==
    /\ nf_pc = "fetch"
    /\ EndCycle("get_node_refs error")
    /\ UNCHANGED <<connected_node_refs, node_refs, v_idx, a_idx, cycles, dialed,
                   established, avars>>

\* Examine without the membership check of lines 90-92
ExamineWithoutContains ==
    /\ nf_pc = "examine"
    /\ IF v_idx > Len(node_refs)
       THEN /\ EndCycle("Ok")
            /\ UNCHANGED <<v_idx, a_idx>>
       ELSE /\ a_idx' = 1
            /\ nf_pc' = IF Len(CurrentRef) = 0 THEN "insert" ELSE "connect"
            /\ UNCHANGED <<nf_result, v_idx>>
    /\ UNCHANGED <<connected_node_refs, node_refs, cycles, dialed, established, avars>>

\* head of `for v in ...`: the list is exhausted (Ok(())), or v is a member
\* (continue), or the loop over v.addrs starts; with no address the loop is
\* over at once and the cycle waits for the lock of line 99
Examine ==
    /\ nf_pc = "examine"
    /\ IF v_idx > Len(node_refs)
       THEN /\ EndCycle("Ok")
            /\ UNCHANGED <<v_idx, a_idx>>
       ELSE IF ContainsRef(connected_node_refs, CurrentRef)
       THEN /\ v_idx' = v_idx + 1
            /\ UNCHANGED <<nf_pc, nf_result, a_idx>>
       ELSE /\ a_idx' = 1
            /\ nf_pc' = IF Len(CurrentRef) = 0 THEN "insert" ELSE "connect"
            /\ UNCHANGED <<nf_result, v_idx>>
    /\ UNCHANGED <<connected_node_refs, node_refs, cycles, dialed, established, avars>>

\* connected_node_refs.lock().await.insert(v), then the next candidate
Register ==
    /\ nf_pc = "insert"
    /\ connected_node_refs' = InsertRef(connected_node_refs, CurrentRef)
    /\ v_idx' = v_idx + 1
    /\ nf_pc' = "examine"
    /\ UNCHANGED <<node_refs, a_idx, nf_result, cycles, dialed, established, avars>>

\* session_connector.connect(&a, &SessionType::NodeFinder).await returned a Session
Connect ==
    /\ nf_pc = "connect"
    /\ a_idx <= Len(CurrentRef)
    /\ dialed' = dialed \cup {CurrentRef}
    /\ established' = [established EXCEPT ![CurrentRef] = @ + 1]
    /\ nf_pc' = "handshake"
    /\ UNCHANGED <<connected_node_refs, node_refs, v_idx, a_idx, nf_result, cycles, avars>>

\* session_connector.connect(...).await? failed
ConnectError ==
    /\ nf_pc = "connect"
    /\ a_idx <= Len(CurrentRef)
    /\ dialed' = dialed \cup {CurrentRef}
    /\ EndCycle("connect error")
    /\ UNCHANGED <<connected_node_refs, node_refs, v_idx, a_idx, cycles, established, avars>>

\* a handshake that returns Ok(id): the loop goes on to the next address of v
HandshakeReturns ==
    /\ nf_pc = "handshake"
    /\ a_idx' = a_idx + 1
    /\ nf_pc' = "connect"
    /\ UNCHANGED <<connected_node_refs, node_refs, v_idx, nf_result, cycles, dialed,
                   established, avars>>

\* Self::handshake(&session).await: todo!() panics, the task of the cycle ends
HandshakePanic ==
    /\ nf_pc = "handshake"
    /\ nf_pc' = "panicked"
    /\ UNCHANGED <<connected_node_refs, node_refs, v_idx, a_idx, nf_result, cycles, dialed,
                   established, avars>>

\* the clock of the membership set advances
Tick ==
    /\ Aged(connected_node_refs) # connected_node_refs
    /\ connected_node_refs' = Aged(connected_node_refs)
    /\ UNCHANGED <<nf_pc, node_refs, v_idx, a_idx, nf_result, cycles, dialed, established,
                   avars>>

NextFinder ==
    \/ StartCycle
    \/ GetNodeRefs
    \/ GetNodeRefsError
    \/ Examine
    \/ Connect
    \/ ConnectError
    \/ HandshakePanic
    \/ Register
    \/ Tick

SpecFinder == InitFinder /\ [][NextFinder]_vars

(***************************************************************************)
(* Properties.                                                             *)
(***************************************************************************)
Last(seq) == seq[Len(seq)]
ResultSent(w, r) == \E i \in 1..Len(sent[w]) : sent[w][i] = Result(r)
Published(w) == \E i \in 1..Len(queue) : queue[i].address = conn[w]
Failures == {"io error", "result send error", "invalid version", "Unsupported session version",
             "Invalid signature", "invalid request_type", "no arm for request_type"}

\* C1: Accept is written to a connection only by a worker that holds a permit
\* of the queue (so the queue has room for one more), and the step that writes
\* Accept also puts that connection's Session in the queue; a held permit is
\* always counted within the capacity.
C1_AcceptOnlyWithReservedSlot ==
    /\ [](\A w \in Workers : permit[w] => Len(queue) + Reserved <= Capacity)
    /\ [][\A w \in Workers :
            (Len(sent'[w]) > Len(sent[w]) /\ Last(sent'[w]) = Result("Accept")) =>
                /\ permit[w]
                /\ Len(queue) < Capacity
                /\ queue' = Append(queue, Session(w))]_vars

\* C1 witness: a worker has sent Accept, its Session is in the queue, and the
\* queue is full.
C1_Witness ==
    \E w \in Workers :
        /\ outcome[w] = "Ok"
        /\ ResultSent(w, "Accept")
        /\ Published(w)
        /\ Len(queue) = Capacity

\* C2: a worker that reaches admission while the queue holds Capacity sessions
\* gets no permit; a worker without a permit sends Reject, never Accept, leaves
\* the queue as it is and returns Ok.
C2_FullQueueRejects ==
    [][\A w \in Workers :
        /\ (wpc[w] = "lock_senders" /\ wpc'[w] = "send_result" /\ Len(queue) = Capacity)
              => ~permit'[w]
        /\ (wpc[w] = "send_result" /\ ~permit[w] /\ Len(sent'[w]) > Len(sent[w]))
              => /\ Last(sent'[w]) = Result("Reject")
                 /\ queue' = queue
                 /\ outcome'[w] = "Ok"]_vars

\* C2 witness: the queue is full and a worker has returned Ok after Reject.
C2_Witness ==
    \E w \in Workers :
        /\ Len(queue) = Capacity
        /\ outcome[w] = "Ok"
        /\ ResultSent(w, "Reject")
        /\ ~Published(w)

\* C3: a caller suspended in accept() on an empty queue, once terminate() has
\* returned, eventually gets the "closed" failure.
C3_AcceptFailsClosedAfterTerminate ==
    \A c \in Callers :
        (cpc[c] = "recv" /\ queue = <<>> /\ \E t \in Terms : tpc[t] = "returned")
            ~> (cpc[c] = "returned" /\ got[c].result = "Err")

\* C4: when a call of terminate() has returned, the token is cancelled and
\* the task of every worker has ended; from then on no step changes a worker, hands out a
\* connection or adds to the queue.
C4_TerminateWaitsForWorkers ==
    /\ [](\A t \in Terms : tpc[t] = "returned" =>
            cancelled /\ \A w \in Workers : wpc[w] \in Ended)
    /\ [][(\E t \in Terms : tpc[t] = "returned") =>
            /\ wvars' = wvars
            /\ nextConn' = nextConn
            /\ Len(queue') <= Len(queue)]_vars

\* C4 witness: terminate() has returned after a handshake had published a
\* Session.
C4_Witness ==
    /\ \E t \in Terms : tpc[t] = "returned"
    /\ \A w \in Workers : wpc[w] = "exited"
    /\ \E i \in 1..Len(queue) : queue[i].address < nextConn

\* C5: every call of terminate() that has cancelled the token returns, also
\* with a caller suspended in accept(); once one call has returned, the steps
\* of another call change nothing but that call's own position.
C5_TerminateIdempotent ==
    /\ \A t \in Terms : (tpc[t] = "lock") ~> (tpc[t] = "returned")
    /\ [][\A t \in Terms :
            (tpc'[t] # tpc[t] /\ \E u \in Terms \ {t} : tpc[u] = "returned") =>
                /\ cancelled' = cancelled
                /\ join_handles' = join_handles
                /\ join_lock' = 0 /\ join_lock = 0
                /\ wvars' = wvars
                /\ queue' = queue
                /\ tpc'[t] \in {"lock", "returned"}]_vars

\* C5 witness: both calls of terminate() have returned while a caller is still
\* suspended in accept().
C5_Witness ==
    /\ \A t \in Terms : tpc[t] = "returned"
    /\ \E c \in Callers : cpc[c] = "recv"

PastHello == {"send_challenge", "recv_challenge", "send_signature", "recv_signature",
              "recv_request", "lock_senders", "send_result"}
PastSignature == {"recv_request", "lock_senders", "send_result"}

\* C6: a worker is past the hello step only if the version set it offered and
\* the one it received share a bit.
C6_EmptyIntersectionFails ==
    \A w \in Workers : wpc[w] \in PastHello => BitAnd(V1, hello[w]) # 0

\* C7: whenever the offered and the received version sets share a bit, the
\* negotiated version is their bitwise AND.
C7_NegotiatedIsIntersection ==
    \A w \in Workers :
        (wpc[w] \in PastHello /\ BitAnd(V1, hello[w]) # 0) =>
            version[w] = BitAnd(V1, hello[w])

\* C7 witness: a worker negotiated with a peer that offered V1.
C7_Witness ==
    \E w \in Workers : wpc[w] \in PastHello /\ hello[w] = V1 /\ version[w] = V1

\* C8: a worker past the signature step holds a signature that verifies against
\* the nonce of the challenge it sent on this connection; a Session enters the
\* queue only with such a signature; the signature the worker sends is over
\* the nonce it received.
C8_SignatureOverOwnNonce ==
    /\ [](\A w \in Workers : wpc[w] \in PastSignature =>
            /\ sent[w][2] = Challenge(send_nonce[w])
            /\ Verify(recv_sig[w], send_nonce[w]))
    /\ [][\A w \in Workers :
            (wpc[w] = "send_result" /\ Len(queue') > Len(queue)) =>
                /\ sent[w][2] = Challenge(send_nonce[w])
                /\ Verify(Last(queue').signature, send_nonce[w])]_vars
    /\ [][\A w \in Workers :
            (Len(sent'[w]) > Len(sent[w]) /\ Last(sent'[w]).kind = "Signature") =>
                /\ recv_nonce[w] \in Nonces
                /\ Last(sent'[w]).body = Sign(recv_nonce[w])]_vars

\* C8 witness: a Session was published on a connection where the nonce sent
\* and the nonce received differ.
C8_Witness ==
    \E w \in Workers :
        /\ outcome[w] = "Ok"
        /\ ResultSent(w, "Accept")
        /\ sent[w][3].body.signed # sent[w][2].body
        /\ \E i \in 1..Len(queue) :
            queue[i].address = conn[w] /\ queue[i].signature = Sign(sent[w][2].body)

\* C9: the only way from the signature step to the request step is a signature
\* that verifies; a handshake that returned "Invalid signature" has sent no
\* result, holds no permit and no lock, has no Session in the queue, and its
\* worker's next step is the return to the head of the loop.
C9_BadSignatureEndsHandshake ==
    /\ [][\A w \in Workers :
            (wpc[w] = "recv_signature" /\ wpc'[w] \notin {"recv_signature", "exited"}) =>
                \/ wpc'[w] = "recv_request" /\ Verify(recv_sig'[w], send_nonce[w])
                \/ /\ wpc'[w] = "done"
                   /\ outcome'[w] \in {"Invalid signature", "io error"}
                   /\ queue' = queue]_vars
    /\ [](\A w \in Workers : outcome[w] = "Invalid signature" =>
            /\ wpc[w] = "done"
            /\ Len(sent[w]) = 3
            /\ ~permit[w]
            /\ senders_lock # w
            /\ ~Published(w))
    /\ [][\A w \in Workers :
            (outcome[w] = "Invalid signature" /\ wpc'[w] # wpc[w]) =>
                wpc'[w] \in {"sleep", "exited"} /\ sent'[w] = <<>>]_vars

\* C9 witness: a handshake has ended with "Invalid signature".
C9_Witness == \E w \in Workers : outcome[w] = "Invalid signature"

\* C10: the loop of a worker is left only after cancellation, never because
\* an accept() returned a failure; a worker whose accept()
\* returned holds neither the senders lock nor a permit; while the token is
\* not cancelled, the step after a failed accept() is the return to the head
\* of the loop, where the sleep and then the next transport accept can run;
\* the failure changes nothing of another worker.
C10_FailureIsContained ==
    /\ [](\A w \in Workers : wpc[w] = "exited" => cancelled)
    /\ [](\A w \in Workers : wpc[w] \in {"done", "sleep", "tcp_accept"} =>
            senders_lock # w /\ ~permit[w])
    /\ [](\A w \in Workers :
            /\ wpc[w] = "done" => ENABLED Finish(w)
            /\ wpc[w] = "sleep" => ENABLED Sleep(w))
    /\ [][\A w \in Workers :
            (outcome[w] \in Failures /\ wpc'[w] # wpc[w] /\ ~cancelled) =>
                wpc'[w] = "sleep"]_vars
    /\ [][\A w \in Workers :
            (outcome'[w] \in Failures /\ outcome[w] = "none") =>
                \A v \in Workers \ {w} :
                    /\ wpc'[v] = wpc[v]
                    /\ sent'[v] = sent[v]
                    /\ permit'[v] = permit[v]]_vars

\* C10 witness: a handshake has failed, the token is not cancelled, and another
\* worker is in the middle of its own handshake.
C10_Witness ==
    /\ ~cancelled
    /\ \E w \in Workers :
        /\ outcome[w] \in Failures \ {"io error"}
        /\ \E v \in Workers \ {w} : wpc[v] \in PastHello

\* C11: the queue changes only by a publication at its tail or by handing its
\* head to a caller of accept(); the caller served is the one that has waited
\* longest at the receivers lock, and nobody else's result changes; a Session is
\* never both in the queue and in a caller's hands, nor in two callers' hands.
C11_SessionsHandedOutInOrder ==
    /\ [][queue' # queue =>
            \/ \E w \in Workers : wpc[w] = "send_result" /\ queue' = Append(queue, Session(w))
            \/ /\ queue # <<>>
               /\ queue' = Tail(queue)
               /\ \E c \in Callers :
                    /\ cpc[c] = "recv" /\ cpc'[c] = "returned"
                    /\ c = Head(receivers_lock)
                    /\ got'[c] = [result |-> "Ok", session |-> Head(queue)]
                    /\ \A d \in Callers \ {c} : got'[d] = got[d] /\ cpc'[d] = cpc[d]]_vars
    /\ [][\A c \in Callers :
            (cpc[c] = "idle" /\ cpc'[c] # "idle") =>
                receivers_lock' = Append(receivers_lock, c)]_vars
    /\ [](\A c, d \in Callers :
            (c # d /\ got[c].result = "Ok" /\ got[d].result = "Ok") =>
                got[c].session # got[d].session)
    /\ [](\A c \in Callers : got[c].result = "Ok" =>
            \A i \in 1..Len(queue) : queue[i] # got[c].session)
    /\ [](\A i, j \in 1..Len(queue) : i # j => queue[i] # queue[j])

\* C11 witness: two callers of accept() have each been handed a Session; the
\* second caller holds the older Session, the first caller the one that a
\* handshake published behind it.
C11_Witness ==
    /\ \A c \in Callers : cpc[c] = "returned" /\ got[c].result = "Ok"
    /\ got[2].session.address = 1
    /\ got[1].session.address = 2

\* a step of the cycle that dials the current address of the current candidate
Dials == nf_pc = "connect" /\ nf_pc' \in {"handshake", "idle"}
\* the cycle has returned
CycleEnded == nf_pc = "idle" /\ nf_result # "none"
Occurrences(r) == Cardinality({k \in 1..Len(node_refs) : node_refs[k] = r})

\* C12: the addresses of a candidate are dialed in list order, the first one
\* first and each next one right after its predecessor, and no address of a
\* candidate is dialed once connect() has returned a session for that candidate
\* in this cycle.
C12_StopsAtFirstEstablishedSession ==
    /\ [][(nf_pc = "examine" /\ nf_pc' = "connect") => a_idx' = 1]_vars
    /\ [][(nf_pc = "handshake" /\ nf_pc' = "connect") =>
            a_idx' = a_idx + 1 /\ v_idx' = v_idx]_vars
    /\ [][Dials => established[CurrentRef] = 0]_vars

\* C12 witness: connect() has returned a session for the first address of a
\* candidate with two addresses, the cycle is over, and the second address was
\* not dialed.
C12_Witness ==
    /\ nf_pc = "panicked"
    /\ Len(CurrentRef) = 2
    /\ a_idx = 1
    /\ established[CurrentRef] = 1

\* C13: a cycle never returns the error of a connect or of a handshake, and a
\* cycle that got its list returns only after it has gone through the whole
\* list.
C13_ConnectFailureIsNotFatal ==
    /\ nf_result \notin {"connect error", "handshake error"}
    /\ (CycleEnded /\ nf_result # "get_node_refs error") => v_idx > Len(node_refs)

\* C14: a NodeRef enters the membership set only when connect() has returned a
\* session for it in this cycle; when the cycle has returned, a candidate that
\* was dialed without any session is no member, and every candidate of the list
\* that is no member has been dialed in this cycle.
C14_RegisteredOnlyWithSession ==
    /\ [][\A r \in NodeRefs :
            (~ContainsRef(connected_node_refs, r) /\ ContainsRef(connected_node_refs', r))
                => established[r] >= 1]_vars
    /\ [](CycleEnded =>
            \A k \in 1..Len(node_refs) :
                /\ (node_refs[k] \in dialed /\ established[node_refs[k]] = 0)
                      => ~ContainsRef(connected_node_refs, node_refs[k])
                /\ ~ContainsRef(connected_node_refs, node_refs[k])
                      => node_refs[k] \in dialed)

\* C15: a dial is made only to a candidate that is no member; entries leave the
\* membership set only in the refresh at the start of a cycle; a NodeRef that
\* is twice in the list gets at most one session in the cycle.
C15_MembersAreNotDialed ==
    /\ [][Dials => ~ContainsRef(connected_node_refs, CurrentRef)]_vars
    /\ [][\A r \in NodeRefs :
            (ContainsRef(connected_node_refs, r) /\ ~ContainsRef(connected_node_refs', r))
                => nf_pc = "idle" /\ nf_pc' = "fetch"]_vars
    /\ [](\A r \in NodeRefs : Occurrences(r) >= 2 => established[r] <= 1)

\* C15 witness: in the second cycle the list is a member followed by a NodeRef
\* that is in it twice; the member was examined and not dialed, the other
\* NodeRef got one session.
C15_Witness ==
    /\ cycles = 0
    /\ Len(node_refs) = 3
    /\ ContainsRef(connected_node_refs, node_refs[1])
    /\ node_refs[1] \notin dialed
    /\ node_refs[2] = node_refs[3]
    /\ v_idx = 2
    /\ established[node_refs[2]] = 1

\* C16: a worker gets to the admission step only with request type
\* NodeExchanger; from the request step a handshake either does that or
\* returns a failure with the queue untouched and no permit, and its worker
\* stays in the loop.
C16_UnknownRequestTypeRejected ==
    /\ [](\A w \in Workers : wpc[w] \in {"lock_senders", "send_result"} =>
            request[w] = NodeExchanger)
    /\ [][\A w \in Workers :
            (wpc[w] = "recv_request" /\ wpc'[w] \notin {"recv_request", "exited"}) =>
                \/ wpc'[w] = "lock_senders" /\ request'[w] = NodeExchanger
                \/ /\ wpc'[w] = "done"
                   /\ outcome'[w] \in Failures
                   /\ queue' = queue
                   /\ ~permit'[w]]_vars
    /\ [](\A w \in Workers : wpc[w] # "panicked")

\* C17: a worker suspended in a transport accept, a send or a receive does not
\* hold the lock of the sender map.
C17_NoLockAcrossNetworkIo ==
    \A w \in Workers : wpc[w] \in IoPoints => senders_lock # w

\* C18: a worker exits only from the head of the loop, from the transport
\* accept or after its accept() has returned, never from inside a handshake.
C18_CancellationAtLoopBoundary ==
    [][\A w \in Workers :
        (wpc'[w] = "exited" /\ wpc[w] # "exited") =>
            wpc[w] \in {"sleep", "tcp_accept", "done"}]_vars

\* the steps of the responder handshake, in the order of the code
HandshakeSteps ==
    <<"send_hello", "recv_hello", "send_challenge", "recv_challenge", "send_signature",
      "recv_signature", "recv_request", "lock_senders", "send_result">>
StepOf(pc) == CHOOSE k \in 1..Len(HandshakeSteps) : HandshakeSteps[k] = pc
InHandshake(pc) == \E k \in 1..Len(HandshakeSteps) : HandshakeSteps[k] = pc
Kinds(msgs) == [k \in 1..Len(msgs) |-> msgs[k].kind]
\* the messages a worker at step k has sent: one per send step before k
SentBefore(k) ==
    SubSeq(<<"Hello", "Challenge", "Signature">>, 1,
           IF k <= 1 THEN 0 ELSE IF k <= 3 THEN 1 ELSE IF k <= 5 THEN 2 ELSE 3)

\* C19: a handshake starts at the hello send, right after the transport
\* accept; a worker in a handshake moves only to the next step of the fixed
\* order or out of the handshake; at each step it has sent exactly the messages
\* of the send steps before it, and past the signature step it holds a verified
\* signature; a handshake that returned Ok has sent hello, challenge, signature
\* and result, once each; the queue grows only by the Session of a worker at the
\* result step that sends Accept, with that connection's address, role Accepted
\* and a SessionType that the match gave for the request received.
C19_HandshakeStepsInOrder ==
    /\ [][\A w \in Workers :
            (wpc'[w] # wpc[w] /\ InHandshake(wpc'[w]) /\ ~InHandshake(wpc[w])) =>
                wpc[w] = "tcp_accept" /\ wpc'[w] = "send_hello" /\ sent'[w] = <<>>]_vars
    /\ [][\A w \in Workers :
            (wpc'[w] # wpc[w] /\ InHandshake(wpc[w])) =>
                \/ wpc'[w] \in {"done"} \cup Ended
                \/ InHandshake(wpc'[w]) /\ StepOf(wpc'[w]) = StepOf(wpc[w]) + 1]_vars
    /\ [](\A w \in Workers : InHandshake(wpc[w]) =>
            /\ Kinds(sent[w]) = SentBefore(StepOf(wpc[w]))
            /\ StepOf(wpc[w]) >= 7 => Verify(recv_sig[w], send_nonce[w]))
    /\ [](\A w \in Workers : outcome[w] = "Ok" =>
            Kinds(sent[w]) = <<"Hello", "Challenge", "Signature", "Result">>)
    /\ [][Len(queue') > Len(queue) =>
            \E w \in Workers :
                /\ wpc[w] = "send_result"
                /\ sent'[w] = Append(sent[w], Result("Accept"))
                /\ queue' = Append(queue,
                        [typ |-> typ[w], address |-> conn[w],
                         handshake_type |-> "Accepted", signature |-> recv_sig[w]])
                /\ typ[w] \in SessionTypes \cap MatchOutcomes(request[w])]_vars

\* C19 witness: a handshake went through every step and its Session, with the
\* connection's address, is in the queue.
C19_Witness ==
    \E w \in Workers :
        /\ outcome[w] = "Ok"
        /\ Kinds(sent[w]) = <<"Hello", "Challenge", "Signature", "Result">>
        /\ sent[w][4] = Result("Accept")
        /\ \E i \in 1..Len(queue) :
            queue[i].address = conn[w] /\ queue[i].handshake_type = "Accepted"

\* C20: the sessions in the queue and the permits held never exceed the
\* capacity; a permit is held only by a worker at the result step; the step by
\* which a worker with a permit leaves that step ends the permit, either with
\* its Session appended to the queue or, on a failed send or a cancellation,
\* with the queue as it was and one reserved slot less.
C20_ReservedSlotsWithinCapacity ==
    /\ [](Len(queue) + Reserved <= Capacity)
    /\ [](\A w \in Workers : permit[w] => wpc[w] = "send_result")
    /\ [][\A w \in Workers :
            (permit[w] /\ wpc'[w] # wpc[w]) =>
                /\ ~permit'[w]
                /\ Reserved' = Reserved - 1
                /\ \/ wpc'[w] = "done" /\ outcome'[w] = "Ok"
                      /\ queue' = Append(queue, Session(w))
                   \/ wpc'[w] = "done" /\ outcome'[w] = "result send error"
                      /\ queue' = queue
                   \/ wpc'[w] = "exited" /\ queue' = queue]_vars

\* C20 witness: the only connection so far got the last slot of the queue, the
\* send of its Accept failed, and the slot is free again.
C20_Witness ==
    \E w \in Workers :
        /\ outcome[w] = "result send error"
        /\ nextConn = Capacity + 1
        /\ Len(queue) = Capacity - 1
        /\ Reserved = 0
        /\ SlotFree

\* C21: a call of terminate() that awaits the workers holds the join-handle
\* lock, and the handles are gone, for as long as it awaits; while one call
\* awaits, no other call has returned; a call that found no handles got the
\* lock free and returns with the task of every worker ended, as does the call
\* that awaited them.
C21_ConcurrentTerminateWaits ==
    /\ [](\A t \in Terms : tpc[t] = "join" => join_lock = t /\ join_handles = "None")
    /\ [](\A t, u \in Terms :
            (t # u /\ tpc[t] = "join") => tpc[u] \in {"absent", "idle", "lock"})
    /\ [][\A t \in Terms :
            (tpc[t] # "returned" /\ tpc'[t] = "returned") =>
                /\ \A w \in Workers : wpc[w] \in Ended
                /\ \/ tpc[t] = "join" /\ join_lock = t
                   \/ tpc[t] = "lock" /\ join_lock = 0 /\ join_handles = "None"
                /\ join_lock' = 0]_vars

\* C21 witness: one call awaits the workers, a second call has cancelled and
\* waits at the lock, and a worker is still inside a handshake.
C21_Witness ==
    \E t, u \in Terms :
        /\ tpc[t] = "join"
        /\ tpc[u] = "lock"
        /\ \E w \in Workers : wpc[w] \in PastHello

====
